---------------------------- MODULE Spec2Model ----------------------------
(***************************************************************************)
(* Model of the journal discovery pipeline of ResearchAI                   *)
(* (backend/Aadi/fetch_journals.py, backend/Vraj/run.py).                  *)
(*                                                                         *)
(* Conventions.                                                            *)
(*  - A Python string is a sequence of chunks: one-character strings, so   *)
(*    that lower(), strip(), ' '.join() and the substring test "kw in s"   *)
(*    are computed, or whole literals (a title, a fixed message) that no   *)
(*    string operation of the program looks into.                          *)
(*  - An optional value (a dict entry that is missing or None) is <<>>,    *)
(*    a present value x is <<x>>.                                          *)
(*  - A float score is the exact rational [num |-> n, den |-> d], d > 0.   *)
(***************************************************************************)
EXTENDS Integers, Sequences, FiniteSets, TLC

VARIABLES
  call,               \* a call of a pure function: its name and arguments
  ret,                \* what the call returned
  pc,                 \* where main() of fetch_journals.py is
  criteria,           \* main: the criteria loaded from format.json
  gemini_api_key,     \* fetcher.gemini_api_key is set (GEMINI_API_KEY)
  journals,           \* main: the list fetch_journals returned
  top_journals,       \* main: the list rank_and_filter_journals returned
  idx,                \* save_final_results: the entry of top_3 in turn (from 1)
  final_results,      \* save_final_results: the records built so far
  results_json,       \* the file results.json
  final_result_json,  \* the file final_result.json
  trace,              \* the requests and reconstructions of this run, in order
  fetch_status,       \* how the search request of this run ended
  runs                \* how many times main() was started

pureVars == <<call, ret>>

mainVars ==
  <<pc, criteria, gemini_api_key, journals, top_journals, idx, final_results,
    results_json, final_result_json, trace, fetch_status, runs>>

vars == <<pureVars, mainVars>>

-----------------------------------------------------------------------------
(* Python values *)

None == <<>>

Some(x) == <<x>>

\* dict.get(key, default)
Get(d, key, default) == IF key \in DOMAIN d THEN d[key] ELSE default

\* dict.get(key)
GetOpt(d, key) == Get(d, key, None)

\* {}
EmptyDict == <<>>

\* The characters str.lower() changes, with their lower-case forms.
UpperMap ==
  [c \in {"A", "G", "N", "V"} |->
     CASE c = "A" -> "a" [] c = "G" -> "g" [] c = "N" -> "n" [] c = "V" -> "v"]

LowerChar(c) == IF c \in DOMAIN UpperMap THEN UpperMap[c] ELSE c

\* str.lower()
lower(s) == [i \in 1..Len(s) |-> LowerChar(s[i])]

\* sub in s, for two strings
IsSubstring(sub, s) ==
  \E i \in 0..(Len(s) - Len(sub)) : SubSeq(s, i + 1, i + Len(sub)) = sub

\* sep.join(strs)
RECURSIVE join(_, _)
join(sep, strs) ==
  IF Len(strs) = 0 THEN <<>>
  ELSE IF Len(strs) = 1 THEN strs[1]
  ELSE strs[1] \o sep \o join(sep, Tail(strs))

\* reversed(s)
Reversed(s) == [i \in DOMAIN s |-> s[Len(s) + 1 - i]]

\* Truthiness of a string: the empty string is falsy.
Truthy(s) == s # <<>>

\* The sequences over S of length at most n.
SeqUpTo(S, n) == UNION {[1..k -> S] : k \in 0..n}

\* A sequence holding each element of the finite set S once, in some order.
RECURSIVE SetToSeq(_)
SetToSeq(S) ==
  IF S = {} THEN <<>>
  ELSE LET x == CHOOSE y \in S : TRUE IN <<x>> \o SetToSeq(S \ {x})

-----------------------------------------------------------------------------
(* Exact scores *)

Rat(n, d) == [num |-> n, den |-> d]

RatAddInt(r, k) == Rat(r.num + k * r.den, r.den)

RatLeq(a, b) == a.num * b.den <= b.num * a.den

RatEq(a, b) == a.num * b.den = b.num * a.den

RatLeqInt(a, k) == a.num <= k * a.den

RatGeqInt(a, k) == a.num >= k * a.den

RatEqInt(a, k) == a.num = k * a.den

\* min(score, k)
RatMinInt(r, k) == IF RatLeqInt(r, k) THEN r ELSE Rat(k, 1)

-----------------------------------------------------------------------------
(* Bounds of the model *)

\* Longest keyword list of a criteria record or a work.
MaxKeywords == 2

\* Most topics of a work.
MaxTopics == 1

\* Oldest age (current_year - publication_year) of a work.
MaxAge == 22

\* Longest list of journals handed to rank_and_filter_journals.
MaxJournals == 17

\* A list of journals is a pattern of at most MaxPattern works, repeated.
MaxPattern == 3

\* Longest text (in words) an abstract index is built from.
MaxWords == 4

\* Most works in a response of the search service.
MaxResults == 2

\* Longest ranked list handed to save_final_results.
MaxRanked == 5

\* Most runs of main().
MaxRuns == 2

\* Longest keyword list handed to build_query_params.
MaxQueryKeywords == 12

\* Most words of a malformed abstract index.
MaxMalformedItems == 2

-----------------------------------------------------------------------------
(* Strings of the inputs *)

S_graph == <<"g", "r", "a", "p", "h">>

S_Graph == <<"G", "r", "a", "p", "h">>

S_attention == <<"a", "t", "t", "e", "n", "t", "i", "o", "n">>

S_Attention == <<"A", "t", "t", "e", "n", "t", "i", "o", "n">>

S_GraphAttentionNetwork ==
  S_Graph \o <<" ">> \o S_Attention \o <<" ">> \o <<"N", "e", "t", "w", "o", "r", "k">>

S_Vision == <<"V", "i", "s", "i", "o", "n">>

CriteriaKeywordPool == {S_graph, S_Attention, <<>>}

WorkKeywordPool == {S_Graph, S_attention}

TopicPool == {S_GraphAttentionNetwork, S_Vision}

-----------------------------------------------------------------------------
(* OpenAlexJournalFetcher.calculate_aptness_score *)

current_year == 2025

\* set(kw.lower() for kw in kws if kw)
LowerSet(kws) == {lower(kws[i]) : i \in {j \in DOMAIN kws : Truthy(kws[j])}}

\* The orders in which iterating a Python set may yield its elements.
Orders(S) ==
  {f \in [1..Cardinality(S) -> S] : \A x \in S : \E i \in DOMAIN f : f[i] = x}

\* bool(criteria.get('openAccess'))
PyBool(opt) == opt # None /\ opt[1] # 0

\* 1. Keyword and topic matching.  topic_order is the order in which
\* ' '.join(work_topics) iterates the set work_topics.
RelevanceScore(work, crit, topic_order) ==
  LET input_keywords == LowerSet(Get(crit, "keywords", <<>>))
      work_keywords == LowerSet(Get(work, "keywords", <<>>))
      keyword_matches == Cardinality(input_keywords \cap work_keywords)
      topic_keywords == join(<<" ">>, topic_order)
      topic_matches ==
        Cardinality({kw \in input_keywords : IsSubstring(kw, topic_keywords)})
      total_matches == keyword_matches + topic_matches
      max_possible == Cardinality(input_keywords)
  IN IF max_possible > 0 THEN Rat(total_matches * 60, max_possible)
     ELSE Rat(0, 1)

\* 2. Recency score.
RecencyScore(work) ==
  LET pub_year == GetOpt(work, "publication_year")
  IN IF pub_year # None /\ pub_year[1] # 0
     THEN LET years_old == current_year - pub_year[1]
          IN IF years_old <= 5 THEN 25
             ELSE IF years_old <= 10 THEN 25 - ((years_old - 5) * 2)
             ELSE IF years_old <= 20 THEN 15 - ((years_old - 10) * 1)
             ELSE 5
     ELSE 0

\* Faulty variant: with no preference in the criteria nothing is added.
OpennessScore_NoPreferenceNoPoints(work, crit) ==
  IF GetOpt(crit, "openAccess") = None THEN 0
  ELSE IF GetOpt(work, "is_open_access") = Some(PyBool(GetOpt(crit, "openAccess")))
  THEN 15 ELSE 0

\* 3. Open access match.
OpennessScore(work, crit) ==
  IF GetOpt(work, "is_open_access") = Some(PyBool(GetOpt(crit, "openAccess")))
  THEN 15 ELSE 0

\* The sum of the three terms, before the cap.
UncappedScore(work, crit, topic_order) ==
  RatAddInt(RatAddInt(RelevanceScore(work, crit, topic_order),
                      RecencyScore(work)),
            OpennessScore(work, crit))

\* Faulty variant: the final cap is left out.
calculate_aptness_score_NoCap(work, crit, topic_order) ==
  UncappedScore(work, crit, topic_order)

calculate_aptness_score(work, crit, topic_order) ==
  RatMinInt(UncappedScore(work, crit, topic_order), 100)

-----------------------------------------------------------------------------
(* OpenAlexJournalFetcher.rank_and_filter_journals *)

\* The shortlist size: ranked_journals[:15]
RankLimit == 15

\* journal['aptness_score'] = value
SetScore(journal, value) == ("aptness_score" :> value) @@ journal

\* Faulty variant: x is put before the elements of equal score (an unstable sort).
InsertDescending_TiesFirst(s, x) ==
  LET k == Cardinality({i \in DOMAIN s :
                          ~RatLeq(s[i].aptness_score, x.aptness_score)})
  IN SubSeq(s, 1, k) \o <<x>> \o SubSeq(s, k + 1, Len(s))

\* s with x put after every element whose score is at least that of x: one
\* step of a stable descending sort (s is sorted descending).
InsertDescending(s, x) ==
  LET k == Cardinality({i \in DOMAIN s :
                          RatLeq(x.aptness_score, s[i].aptness_score)})
  IN SubSeq(s, 1, k) \o <<x>> \o SubSeq(s, k + 1, Len(s))

\* sorted(journals, key=lambda x: x['aptness_score'], reverse=True): a stable
\* sort, elements of equal score keep their order.
RECURSIVE SortedDescending(_)
SortedDescending(js) ==
  IF js = <<>> THEN <<>>
  ELSE InsertDescending(
         SortedDescending(SubSeq(js, 1, Len(js) - 1)),
         js[Len(js)])

\* lst[:n]
Prefix(lst, n) == SubSeq(lst, 1, IF Len(lst) < n THEN Len(lst) ELSE n)

\* The journals with their scores attached.  orders[i] is the iteration order
\* of the topic set of journal i.
ScoredJournals(js, crit, orders) ==
  [i \in DOMAIN js |->
     SetScore(js[i],
              calculate_aptness_score(js[i], crit, orders[i]))]

rank_and_filter_journals(js, crit, orders) ==
  Prefix(SortedDescending(ScoredJournals(js, crit, orders)),
         RankLimit)

-----------------------------------------------------------------------------
(* OpenAlexJournalFetcher.reconstruct_abstract *)

\* The JSON values met as positions of an abstract index.
PyInt(n) == [t |-> "int", v |-> n]

PyStr(chars) == [t |-> "str", v |-> chars]

PyList(elems) == [t |-> "list", v |-> elems]

PyNone == [t |-> "none"]

\* The values of field abstract: missing or null, a word map (its items in
\* the order of the dict), or a plain string.
NoAbstract == [kind |-> "none"]

AbstractDict(items) == [kind |-> "dict", items |-> items]

AbstractStr(text) == [kind |-> "str", text |-> text]

Item(word, positions) == [word |-> word, positions |-> positions]

\* not inverted_index
Falsy(inverted_index) ==
  \/ inverted_index.kind = "none"
  \/ inverted_index.kind = "dict" /\ inverted_index.items = <<>>
  \/ inverted_index.kind = "str" /\ inverted_index.text = <<>>

\* The order of the characters of the model, as their code points order them.
CharRank(c) ==
  CASE c = " " -> 0 [] c = "0" -> 1 [] c = "1" -> 2 [] c = "2" -> 3
    [] OTHER -> 4

RECURSIVE StrLess(_, _)
StrLess(a, b) ==
  IF b = <<>> THEN FALSE
  ELSE IF a = <<>> THEN TRUE
  ELSE IF CharRank(Head(a)) # CharRank(Head(b))
       THEN CharRank(Head(a)) < CharRank(Head(b))
  ELSE StrLess(Tail(a), Tail(b))

\* The first place where two lists differ, or 0: list comparison looks for
\* it with ==, which raises nothing, and then orders the two elements there.
FirstDifference(a, b) ==
  LET D == {i \in DOMAIN a \cap DOMAIN b : a[i] # b[i]}
  IN IF D = {} THEN 0 ELSE CHOOSE i \in D : \A j \in D : i <= j

\* a < b raises TypeError unless both are ints, both are strs, or both are
\* lists that are equal up to the end of one or differ first in two values
\* that have an order.
RECURSIVE Comparable(_, _)
Comparable(a, b) ==
  /\ a.t = b.t
  /\ \/ a.t \in {"int", "str"}
     \/ /\ a.t = "list"
        /\ LET k == FirstDifference(a.v, b.v)
           IN k # 0 => Comparable(a.v[k], b.v[k])

RECURSIVE PyLess(_, _)
PyLess(a, b) ==
  IF a.t = "int" THEN a.v < b.v
  ELSE IF a.t = "str" THEN StrLess(a.v, b.v)
  ELSE LET k == FirstDifference(a.v, b.v)
       IN IF k = 0 THEN Len(a.v) < Len(b.v) ELSE PyLess(a.v[k], b.v[k])

\* for pos in positions: a list yields its elements, a str its characters,
\* anything else raises TypeError.
Iterable(positions) == positions.t \in {"list", "str"}

Elements(positions) ==
  IF positions.t = "list" THEN positions.v
  ELSE [i \in DOMAIN positions.v |-> PyStr(<<positions.v[i]>>)]

\* word_positions after the two loops: a (pos, word) pair for every position
\* of every word, in the order of the dict.
RECURSIVE WordPositions(_)
WordPositions(items) ==
  IF items = <<>> THEN <<>>
  ELSE LET e == Elements(items[1].positions)
       IN [i \in DOMAIN e |-> [pos |-> e[i], word |-> items[1].word]]
          \o WordPositions(Tail(items))

\* s with x put after every pair whose position is not greater: one step of a
\* stable ascending sort (s is sorted ascending).
InsertAscending(s, x) ==
  LET k == Cardinality({i \in DOMAIN s : ~PyLess(x.pos, s[i].pos)})
  IN SubSeq(s, 1, k) \o <<x>> \o SubSeq(s, k + 1, Len(s))

\* Faulty variant: the pairs are left in the order of the dict.
SortedByPosition_Unsorted(wp) == wp

\* word_positions.sort(key=lambda x: x[0])
RECURSIVE SortedByPosition(_)
SortedByPosition(wp) ==
  IF wp = <<>> THEN <<>>
  ELSE InsertAscending(SortedByPosition(SubSeq(wp, 1, Len(wp) - 1)),
                       wp[Len(wp)])

\* Whether the try block raises: inverted_index has no items(), a positions
\* value cannot be iterated, or the sort compares two positions that have no
\* order.
ReconstructRaises(inverted_index) ==
  \/ inverted_index.kind # "dict"
  \/ \E i \in DOMAIN inverted_index.items :
       ~Iterable(inverted_index.items[i].positions)
  \/ LET wp == WordPositions(inverted_index.items)
     IN \E i, j \in DOMAIN wp : i # j /\ ~Comparable(wp[i].pos, wp[j].pos)

\* None, or Some(abstract).
reconstruct_abstract(inverted_index) ==
  IF Falsy(inverted_index) THEN None
  ELSE IF ReconstructRaises(inverted_index) THEN None
  ELSE LET wp == SortedByPosition(WordPositions(inverted_index.items))
           abstract == join(<<" ">>, [i \in DOMAIN wp |-> wp[i].word])
       IN IF Truthy(abstract) THEN Some(abstract) ELSE None

-----------------------------------------------------------------------------
(* OpenAlexJournalFetcher.build_query_params *)

F_IsOaTrue == <<"is_oa:true">>

F_IsOaFalse == <<"is_oa:false">>

F_JournalType == <<"primary_location.source.type:journal">>

SortByCitations == <<"cited_by_count:desc">>

PerPage == <<"15">>

\* The number of keywords the search string takes.
QueryKeywordLimit == 10

\* Faulty variant: every keyword goes into the search string.
QueryKeywords_All(keywords) == keywords

\* criteria['keywords'][:10]
QueryKeywords(keywords) == Prefix(keywords, QueryKeywordLimit)

\* Faulty variant: an unspecified openAccess filters as closed.
OpennessFilters_NoneIsClosed(openAccess) ==
  IF openAccess = Some(1) THEN <<F_IsOaTrue>> ELSE <<F_IsOaFalse>>

\* The open access filter.
OpennessFilters(openAccess) ==
  IF openAccess = Some(1) THEN <<F_IsOaTrue>>
  ELSE IF openAccess = Some(0) THEN <<F_IsOaFalse>>
  ELSE <<>>

\* The parameters of the search request; email is self.email.
build_query_params(email, crit) ==
  LET filters == OpennessFilters(GetOpt(crit, "openAccess")) \o <<F_JournalType>>
      subjectArea == GetOpt(crit, "subjectArea")
      keywords == Get(crit, "keywords", <<>>)
      keywords_str == join(<<" OR ">>, QueryKeywords(keywords))
      search_terms ==
        (IF subjectArea # None /\ Truthy(subjectArea[1])
         THEN <<subjectArea[1]>> ELSE <<>>)
          \o (IF keywords # <<>>
              THEN << <<"(">> \o keywords_str \o <<")">> >> ELSE <<>>)
  IN (IF email # None /\ Truthy(email[1]) THEN [mailto |-> email[1]]
      ELSE EmptyDict)
       @@ (IF filters # <<>> THEN [filter |-> join(<<",">>, filters)]
           ELSE EmptyDict)
       @@ (IF search_terms # <<>> THEN [search |-> join(<<" ">>, search_terms)]
           ELSE EmptyDict)
       @@ [sort |-> SortByCitations, per_page |-> PerPage]

-----------------------------------------------------------------------------
(* OpenAlexJournalFetcher.fetch_journals *)

\* The outcomes of requests.get and raise_for_status: a RequestException
\* (no connection, or a status that is not 2xx), or a JSON body.
SearchFailure(status) == [status |-> status]

SearchSuccess(results) == [status |-> "ok", results |-> results]

FailureStatuses == {"network_error", "http_error"}

\* A nested object or list of a work is <<x>>, and <<>> when the JSON value
\* is null; work.get(key, default) gives the default only when the key is
\* missing.  The value to go on with where the code has not raised:
Deref(opt) == IF opt = None THEN EmptyDict ELSE opt[1]

\* None.get(...) raises AttributeError, iterating None raises TypeError.
JournalInfoRaises(work) ==
  LET open_access == Get(work, "open_access", Some(EmptyDict))
      primary_location == Get(work, "primary_location", Some(EmptyDict))
      source == Get(Deref(primary_location), "source", Some(EmptyDict))
  IN \/ open_access = None
     \/ primary_location = None
     \/ source = None
     \/ Get(work, "topics", Some(<<>>)) = None
     \/ Get(work, "keywords", Some(<<>>)) = None

\* journal_info of one work of the response.
JournalInfo(work) ==
  LET open_access == Deref(Get(work, "open_access", Some(EmptyDict)))
      primary_location == Deref(Get(work, "primary_location", Some(EmptyDict)))
      source == Deref(Get(primary_location, "source", Some(EmptyDict)))
      topics == Deref(Get(work, "topics", Some(<<>>)))
      keywords == Deref(Get(work, "keywords", Some(<<>>)))
  IN [id |-> GetOpt(work, "id"),
      title |-> GetOpt(work, "display_name"),
      doi |-> GetOpt(work, "doi"),
      publication_year |-> GetOpt(work, "publication_year"),
      cited_by_count |-> GetOpt(work, "cited_by_count"),
      is_open_access |-> GetOpt(open_access, "is_oa"),
      oa_status |-> GetOpt(open_access, "oa_status"),
      journal_name |-> GetOpt(source, "display_name"),
      journal_issn |-> GetOpt(source, "issn"),
      abstract |-> Get(work, "abstract_inverted_index", NoAbstract),
      topics |-> [k \in DOMAIN topics |-> GetOpt(topics[k], "display_name")],
      keywords |-> [k \in DOMAIN keywords |-> GetOpt(keywords[k], "keyword")],
      url |-> GetOpt(primary_location, "landing_page_url")]

\* What the call does: it raises, or returns value.
Raises == [raised |-> TRUE]

Returns(value) == [raised |-> FALSE, value |-> value]

\* The loop over the works of the body.  An exception that is not a
\* RequestException leaves fetch_journals.
MapResults(results) ==
  IF \E k \in DOMAIN results : JournalInfoRaises(results[k]) THEN Raises
  ELSE Returns([k \in DOMAIN results |-> JournalInfo(results[k])])

\* Faulty variant: the RequestException is not caught.
fetch_journals_Uncaught(response) ==
  IF response.status \in FailureStatuses THEN Raises
  ELSE MapResults(Get(response, "results", <<>>))

fetch_journals(response) ==
  IF response.status \in FailureStatuses THEN Returns(<<>>)
  ELSE MapResults(Get(response, "results", <<>>))

-----------------------------------------------------------------------------
(* OpenAlexJournalFetcher.generate_abstract_with_gemini *)

NotConfiguredMessage ==
  <<"Abstract not available. Please configure GEMINI_API_KEY in .env file.">>

NotAvailableMessage == <<"Abstract not available.">>

TimedOutMessage == <<"Abstract generation timed out.">>

FailedMessage == <<"Abstract generation failed.">>

\* str.strip(): without the blanks at both ends.
RECURSIVE LStrip(_)
LStrip(str) ==
  IF str # <<>> /\ Head(str) = " " THEN LStrip(Tail(str)) ELSE str

Strip(str) == Reversed(LStrip(Reversed(LStrip(str))))

\* The outcomes of requests.post, raise_for_status and response.json():
\* requests.exceptions.Timeout, another exception, or a JSON body.
GeminiTimeout == [status |-> "timeout"]

GeminiError == [status |-> "error"]

GeminiBody(body) == [status |-> "ok", body |-> body]

\* Faulty variant: a timeout gives no abstract.
generate_abstract_with_gemini_NoneOnTimeout(api_key, response) ==
  IF ~api_key THEN Some(NotConfiguredMessage)
  ELSE IF response.status = "timeout" THEN None
  ELSE Some(FailedMessage)

\* Some(the str returned), given what the request gives.
generate_abstract_with_gemini(api_key, response) ==
  IF ~api_key THEN Some(NotConfiguredMessage)
  ELSE IF response.status = "timeout" THEN Some(TimedOutMessage)
  ELSE IF response.status # "ok" THEN Some(FailedMessage)
  ELSE LET result == response.body
           candidates == Get(result, "candidates", <<>>)
       IN IF "candidates" \in DOMAIN result /\ Len(candidates) > 0
          THEN LET content == Get(candidates[1], "content", EmptyDict)
                   parts == Get(content, "parts", <<>>)
               IN IF parts # <<>> /\ "text" \in DOMAIN parts[1]
                  THEN LET abstract == Strip(parts[1].text)
                       IN IF Truthy(abstract) THEN Some(abstract)
                          ELSE Some(NotAvailableMessage)
                  ELSE Some(NotAvailableMessage)
          ELSE Some(NotAvailableMessage)

-----------------------------------------------------------------------------
(* OpenAlexJournalFetcher.save_final_results *)

\* The size of the shortlist: journals[:3]
ShortlistSize == 3

NotConfiguredSentinel ==
  <<"Abstract not available. Configure GEMINI_API_KEY for automatic generation.">>

\* Faulty variant: the generative service is asked for every entry.
NeedsFallback_Always(abstract) == TRUE

\* if not abstract
NeedsFallback(abstract) == abstract = None \/ ~Truthy(abstract[1])

\* Faulty variant: every ranked journal is taken.
Top3_All(ranked) == ranked

\* top_3 = journals[:3]
Top3(ranked) == Prefix(ranked, ShortlistSize)

\* The record of one journal of the shortlist.
ResultRecord(journal, abstract, crit) ==
  [title |-> Get(journal, "title", Some(<<"N/A">>)),
   abstract |-> abstract,
   publishedYear |-> Get(journal, "publication_year", Some(<<"N/A">>)),
   publishedBy |-> Get(journal, "journal_name", Some(<<"N/A">>)),
   acceptancePercent |->
     [from |-> Get(crit, "acceptancePercentFrom", Some(0)),
      to |-> Get(crit, "acceptancePercentTo", Some(100))],
   subjectArea |-> Get(crit, "subjectArea", Some(<<"N/A">>)),
   openAccess |-> Get(journal, "oa_status", Some(<<"N/A">>)),
   citedByCount |-> Get(journal, "cited_by_count", Some(0)),
   doi |-> Get(journal, "doi", Some(<<"N/A">>)),
   url |-> Get(journal, "url", Some(<<"N/A">>)),
   aptnessScore |-> Get(journal, "aptness_score", Rat(0, 1)),
   journalISSN |-> Get(journal, "journal_issn", <<>>),
   topics |-> Get(journal, "topics", <<>>)]

-----------------------------------------------------------------------------
(* Inputs of the pure functions *)

OpenAccessValues == {None, Some(0), Some(1)}

Years == {None, Some(0)} \cup {Some(current_year - a) : a \in (-1)..MaxAge}

ScoreCriteria ==
  [keywords : SeqUpTo(CriteriaKeywordPool, MaxKeywords),
   openAccess : OpenAccessValues]

\* The works that are scored: every keyword and topic list with the years of
\* the scenarios, and every year with a few keyword and topic lists.
ScenarioYears == {None, Some(2024), Some(2005)}

ScoreWorks ==
  [keywords : SeqUpTo(WorkKeywordPool, MaxKeywords),
   topics : SeqUpTo(TopicPool, MaxTopics),
   publication_year : ScenarioYears,
   is_open_access : {None, Some(TRUE), Some(FALSE)}]
    \cup [keywords : {<<>>, <<S_Graph>>},
          topics : {<<>>, <<S_GraphAttentionNetwork>>},
          publication_year : Years,
          is_open_access : {None, Some(TRUE), Some(FALSE)}]

ScoreCall(w, c, o) ==
  [fn |-> "calculate_aptness_score", work |-> w, criteria |-> c,
   topic_order |-> o]

\* The criteria of the scenarios: keywords graph and attention, open access.
ScenarioCriteria ==
  [subjectArea |-> Some(<<"DL">>), keywords |-> <<S_graph, S_attention>>,
   openAccess |-> Some(1), acceptancePercentFrom |-> Some(65),
   acceptancePercentTo |-> Some(95)]

\* A work of a response of the search service.
RawWork(title, year, oa, keywords, topics, abstract) ==
  [id |-> Some(<<"https://openalex.org/", title>>),
   display_name |-> Some(<<title>>), doi |-> None,
   publication_year |-> year, cited_by_count |-> Some(0),
   open_access |-> Some([is_oa |-> oa, oa_status |-> Some(<<"gold">>)]),
   primary_location |->
     Some([source |-> Some([display_name |-> Some(<<"Journal">>),
                            issn |-> None]),
           landing_page_url |-> None]),
   abstract_inverted_index |-> abstract,
   topics |-> Some([k \in DOMAIN topics |-> [display_name |-> topics[k]]]),
   keywords |-> Some([k \in DOMAIN keywords |-> [keyword |-> keywords[k]]])]

\* The journal fetch_journals builds from such a work.
Work(title, year, oa, keywords, topics, abstract) ==
  JournalInfo(RawWork(title, year, oa, keywords, topics, abstract))

\* Scores under ScenarioCriteria: 100 (130 capped), 100 (110 capped), 40, 25.
RankPool ==
  {Work("A", Some(2024), Some(TRUE), <<S_graph>>, <<S_GraphAttentionNetwork>>,
        NoAbstract),
   Work("B", Some(2005), Some(TRUE), <<S_graph>>, <<S_GraphAttentionNetwork>>,
        NoAbstract),
   Work("C", Some(2024), Some(TRUE), <<>>, <<>>, NoAbstract),
   Work("D", Some(2024), Some(FALSE), <<>>, <<S_Vision>>, NoAbstract)}

\* The list of n journals that repeats the pattern; journal i has id i.
PatternList(pattern, n) ==
  [i \in 1..n |-> ("id" :> i) @@ pattern[((i - 1) % Len(pattern)) + 1]]

\* The iteration orders of the topic sets of journals that have at most one
\* topic each (as all works of the pools have): there is one order to choose.
TopicOrders(js) ==
  [k \in DOMAIN js |->
     CHOOSE o \in Orders(LowerSet(Get(js[k], "topics", <<>>))) : TRUE]

RankCall(js, c, o) ==
  [fn |-> "rank_and_filter_journals", journals |-> js, criteria |-> c,
   orders |-> o]

S_fast == <<"f", "a", "s", "t">>

S_cars == <<"c", "a", "r", "s">>

S_go == <<"g", "o">>

WordPool == {S_fast, S_cars, S_go}

\* The distinct words of a text, in the order of their first occurrence.
RECURSIVE FirstOccurrences(_)
FirstOccurrences(text) ==
  IF text = <<>> THEN <<>>
  ELSE LET init == SubSeq(text, 1, Len(text) - 1)
           last == text[Len(text)]
       IN IF \E i \in DOMAIN init : init[i] = last
          THEN FirstOccurrences(init)
          ELSE FirstOccurrences(init) \o <<last>>

\* The ascending sequence of the numbers of a finite set.
RECURSIVE Ascending(_)
Ascending(S) ==
  IF S = {} THEN <<>>
  ELSE LET m == CHOOSE x \in S : \A y \in S : x <= y
       IN <<m>> \o Ascending(S \ {m})

\* The abstract index of a text: word i (from 0) is at position stride * i;
\* the items are in the order of first occurrence, or in the reverse order.
IndexOf(text, stride, reversed) ==
  LET words == FirstOccurrences(text)
      Places(w) == Ascending({j \in DOMAIN text : text[j] = w})
      items == [k \in DOMAIN words |->
                  Item(words[k],
                       PyList([i \in DOMAIN Places(words[k]) |->
                                 PyInt(stride * (Places(words[k])[i] - 1))]))]
  IN AbstractDict(IF reversed THEN Reversed(items) ELSE items)

\* Positions that are not a list of integers: an integer, a string, null,
\* and lists that hold strings, null, a string after an integer, or lists.
MalformedPositions ==
  {PyInt(0), PyStr(<<"1", "0">>), PyNone,
   PyList(<<PyStr(<<"1">>)>>), PyList(<<PyStr(<<"0">>), PyStr(<<"2">>)>>),
   PyList(<<PyNone>>), PyList(<<PyInt(1), PyStr(<<"1">>)>>),
   PyList(<<PyList(<<PyInt(1)>>)>>)}

\* The words of a malformed index, in the order of its dict.
WordList == <<S_fast, S_cars, S_go>>

ReconstructCall(text, index) ==
  [fn |-> "reconstruct_abstract", text |-> text, inverted_index |-> index]

\* Keyword i of a long keyword list: the letter k, i times.
LongKeyword(i) == [j \in 1..i |-> "k"]

\* The keyword lists of the calls of build_query_params: n distinct
\* keywords, or a short list over the pool of criteria keywords.
QueryKeywordLists ==
  {[i \in 1..n |-> LongKeyword(i)] : n \in 0..MaxQueryKeywords}
    \cup SeqUpTo(CriteriaKeywordPool, MaxKeywords)

QuerySubjects == {None, Some(<<>>), Some(<<"DL">>)}

QueryEmails == {None, Some(<<"user@example.org">>)}

QueryCall(email, c) ==
  [fn |-> "build_query_params", email |-> email, criteria |-> c]

\* A dict without the keys of the set keys.
Without(d, keys) == [k \in DOMAIN d \ keys |-> d[k]]

\* A complete work of the search service.
FullWork ==
  RawWork("A", Some(2024), Some(TRUE), <<S_graph>>,
          <<S_GraphAttentionNetwork>>, NoAbstract)

\* The optional fields of a work.
WorkKeys ==
  {"id", "display_name", "doi", "publication_year", "cited_by_count",
   "open_access", "primary_location", "abstract_inverted_index", "topics",
   "keywords"}

\* FullWork with one of its fields, or a member of a nested object, or all
\* of its fields, missing.
WorksWithMissingKeys ==
  {FullWork, Without(FullWork, WorkKeys)}
    \cup {Without(FullWork, {key}) : key \in WorkKeys}
    \cup {[FullWork EXCEPT !.open_access = Some(Without(@[1], {m}))] :
            m \in {"is_oa", "oa_status"}}
    \cup {[FullWork EXCEPT !.primary_location = Some(Without(@[1], {m}))] :
            m \in {"source", "landing_page_url"}}
    \cup {[FullWork EXCEPT !.primary_location =
             Some([@[1] EXCEPT !.source = Some(Without(@[1], {m}))])] :
            m \in {"display_name", "issn"}}
    \cup {[FullWork EXCEPT !.topics = Some(<<EmptyDict>>)],
          [FullWork EXCEPT !.keywords = Some(<<EmptyDict>>)]}

\* FullWork with a nested object or a list that is null.
WorksWithNulls ==
  {[FullWork EXCEPT ![key] = None] :
     key \in {"open_access", "primary_location", "topics", "keywords"}}
    \cup {[FullWork EXCEPT !.primary_location =
             Some([@[1] EXCEPT !.source = None])]}

FetchWorkPool == WorksWithMissingKeys \cup WorksWithNulls

FetchCall(response) == [fn |-> "fetch_journals", response |-> response]

NotReturned == [done |-> FALSE]

Returned(v) == [done |-> TRUE, value |-> v]

-----------------------------------------------------------------------------
(* Specification of the pure functions: Init draws a call, the action      *)
(* applies the function.                                                   *)

InitScore ==
  \E w \in ScoreWorks, c \in ScoreCriteria :
    \E o \in Orders(LowerSet(w.topics)) : call = ScoreCall(w, c, o)

InitRank ==
  \E k \in 1..MaxPattern, n \in 0..MaxJournals :
    \E pattern \in [1..k -> RankPool] :
      LET js == PatternList(pattern, n)
      IN call = RankCall(js, ScenarioCriteria, TopicOrders(js))

\* A call of reconstruct_abstract: with the index of a text (text is kept
\* with the call for reference), with no index, or with a plain string.
InitReconstruct ==
  \/ \E k \in 0..MaxWords :
       \E text \in [1..k -> WordPool], stride \in 1..2, reversed \in BOOLEAN :
         call = ReconstructCall(text, IndexOf(text, stride, reversed))
  \/ \E index \in {NoAbstract, AbstractStr(<<>>), AbstractStr(S_fast)} :
       call = ReconstructCall(<<>>, index)
  \/ \E n \in 1..MaxMalformedItems :
       \E ps \in [1..n -> MalformedPositions \cup {PyList(<<PyInt(0)>>)}] :
         /\ \E i \in 1..n : ps[i] \in MalformedPositions
         /\ call = ReconstructCall(<<>>,
                      AbstractDict([i \in 1..n |-> Item(WordList[i], ps[i])]))

InitQuery ==
  \E kws \in QueryKeywordLists, subject \in QuerySubjects,
     oa \in OpenAccessValues, email \in QueryEmails :
    call = QueryCall(email, [subjectArea |-> subject, keywords |-> kws,
                             openAccess |-> oa])

InitFetch ==
  \/ \E st \in FailureStatuses : call = FetchCall(SearchFailure(st))
  \/ \E n \in 0..MaxResults :
       \E results \in [1..n -> FetchWorkPool] :
         call = FetchCall(SearchSuccess(results))
  \/ call = FetchCall([status |-> "ok"])

\* main() is not running and has never run.
MainNotStarted ==
  /\ pc = "idle"
  /\ criteria = EmptyDict
  /\ journals = <<>>
  /\ top_journals = <<>>
  /\ idx = 0
  /\ final_results = <<>>
  /\ results_json = None
  /\ final_result_json = None
  /\ trace = <<>>
  /\ fetch_status = "none"
  /\ runs = 0

InitPure ==
  /\ gemini_api_key = FALSE
  /\ InitScore \/ InitRank \/ InitReconstruct \/ InitQuery \/ InitFetch
  /\ ret = NotReturned
  /\ MainNotStarted

CallScore ==
  /\ call.fn = "calculate_aptness_score"
  /\ ret = NotReturned
  /\ ret' = Returned(calculate_aptness_score(call.work, call.criteria,
                                             call.topic_order))
  /\ UNCHANGED <<call, mainVars>>

CallRank ==
  /\ call.fn = "rank_and_filter_journals"
  /\ ret = NotReturned
  /\ ret' = Returned(rank_and_filter_journals(call.journals, call.criteria,
                                              call.orders))
  \* the loop assigns journal['aptness_score'] in the dicts of the caller's list
  /\ call' = [call EXCEPT !.journals =
                ScoredJournals(call.journals, call.criteria, call.orders)]
  /\ UNCHANGED mainVars

CallReconstruct ==
  /\ call.fn = "reconstruct_abstract"
  /\ ret = NotReturned
  /\ ret' = Returned(reconstruct_abstract(call.inverted_index))
  /\ UNCHANGED <<call, mainVars>>

CallQuery ==
  /\ call.fn = "build_query_params"
  /\ ret = NotReturned
  /\ ret' = Returned(build_query_params(call.email, call.criteria))
  /\ UNCHANGED <<call, mainVars>>

CallFetch ==
  /\ call.fn = "fetch_journals"
  /\ ret = NotReturned
  /\ ret' = Returned(fetch_journals(call.response))
  /\ UNCHANGED <<call, mainVars>>

NextPure ==
  CallScore \/ CallRank \/ CallReconstruct \/ CallQuery \/ CallFetch

SpecPure == InitPure /\ [][NextPure]_vars

-----------------------------------------------------------------------------
(* main() of fetch_journals.py: one run of the pipeline, step by step.     *)
(* A step ends where the program waits for a service.                      *)

\* The criteria format.json may hold: the scenario's, and one with no
\* openness preference and no acceptance band.
BareCriteria == [subjectArea |-> Some(<<"ML">>), keywords |-> <<S_graph>>]

CriteriaPool == {ScenarioCriteria, BareCriteria}

S_fastcars ==
  AbstractDict(<<Item(S_cars, PyList(<<PyInt(1)>>)),
                 Item(S_fast, PyList(<<PyInt(0)>>))>>)

\* Works of the search service: one with an abstract index, one without an
\* abstract, one whose abstract is a plain string.
RawWithAbstract ==
  RawWork("A", Some(2024), Some(TRUE), <<S_graph>>,
          <<S_GraphAttentionNetwork>>, S_fastcars)

RawNoAbstract == RawWork("B", Some(2015), Some(TRUE), <<>>, <<S_Vision>>, NoAbstract)

RawStringAbstract ==
  RawWork("C", Some(2015), Some(FALSE), <<S_Graph>>, <<>>,
          AbstractStr(<<"No abstract provided">>))

\* A work whose primary_location is null.
RawNullLocation == [RawNoAbstract EXCEPT !.primary_location = None]

ResponsePool == {RawWithAbstract, RawNoAbstract}

\* A response with one work more than the shortlist takes.
LongResponse ==
  [k \in 1..(ShortlistSize + 1) |->
     IF k = 2 THEN RawWithAbstract ELSE RawNoAbstract]

SearchResponses ==
  {SearchFailure(st) : st \in FailureStatuses}
    \cup {SearchSuccess(results) : results \in SeqUpTo(ResponsePool, MaxResults)}
    \cup {SearchSuccess(<<RawNoAbstract, RawNullLocation>>),
          SearchSuccess(LongResponse)}

\* What the generative service may answer.
GeminiText(text) ==
  GeminiBody([candidates |-> <<[content |-> [parts |-> <<[text |-> text]>>]]>>])

GeminiResponses ==
  {GeminiTimeout, GeminiError,
   GeminiBody(EmptyDict),
   GeminiBody([candidates |-> <<>>]),
   GeminiBody([candidates |-> <<[content |-> [parts |-> <<>>]]>>]),
   GeminiText(<<" ", " ">>),
   GeminiText(<<" ", "Generated abstract.", " ">>)}

SearchEvent == [op |-> "search"]

ReconstructEvent(k) == [op |-> "reconstruct", index |-> k]

GeminiEvent(k) == [op |-> "gemini", index |-> k]

\* GEMINI_API_KEY is set in the environment of the program, or it is not.
Init ==
  /\ call = [fn |-> "none"]
  /\ ret = NotReturned
  /\ gemini_api_key \in BOOLEAN
  /\ MainNotStarted

\* A call of process_user_input that has not returned.
Pending == call.fn = "process_user_input" /\ ~ret.done

\* What the start of main() does to its state: the fetcher reads its
\* configuration, and the criteria c of format.json are loaded.
MainStarts(c) ==
  /\ runs < MaxRuns
  /\ criteria' = c
  /\ pc' = "fetch"
  /\ journals' = <<>>
  /\ top_journals' = <<>>
  /\ idx' = 0
  /\ final_results' = <<>>
  /\ trace' = <<>>
  /\ fetch_status' = "none"
  /\ runs' = runs + 1
  /\ UNCHANGED <<gemini_api_key, results_json, final_result_json>>

\* main() starts on its own (in a new process, after one that returned or
\* ended with a traceback); no call of process_user_input is followed.
StartMain ==
  /\ pc \in {"idle", "crashed", "returned"}
  /\ ~Pending
  /\ \E c \in CriteriaPool : MainStarts(c)
  /\ call' = [fn |-> "none"]
  /\ ret' = NotReturned

ProcessUserInputCall(trigger_search) ==
  [fn |-> "process_user_input", trigger_search |-> trigger_search]

\* process_user_input(input_data, trigger_search=True) up to the start of the
\* subprocess: process_single_input writes the refined criteria (whatever
\* backend.process_input made of the input) to format.json and runs
\* fetch_journals.py, whose main() loads them.
ProcessUserInput ==
  /\ pc \in {"idle", "crashed", "returned"}
  /\ ~Pending
  /\ \E c \in CriteriaPool : MainStarts(c)
  /\ call' = ProcessUserInputCall(TRUE)
  /\ ret' = NotReturned

\* The dictionary process_user_input returns: final_results is what
\* final_result.json holds, if the file exists.
ResultOf(refined_output, trigger_search, final_result_file) ==
  IF trigger_search /\ final_result_file # None
  THEN [refined_output |-> refined_output,
        final_results |-> final_result_file[1]]
  ELSE [refined_output |-> refined_output]

\* process_user_input(input_data, trigger_search=False): no search is run.
ProcessUserInputNoSearch ==
  /\ pc \in {"idle", "crashed", "returned"}
  /\ ~Pending
  /\ call' = ProcessUserInputCall(FALSE)
  /\ \E c \in CriteriaPool :
       ret' = Returned(ResultOf(c, FALSE, final_result_json))
  /\ pc' = "returned"
  /\ UNCHANGED <<criteria, gemini_api_key, journals, top_journals, idx,
                 final_results, results_json, final_result_json, trace,
                 fetch_status, runs>>

\* The subprocess has ended, with exit code 0 or not: process_single_input
\* prints the outcome and returns, and process_user_input builds its result.
ReturnProcessUserInput ==
  /\ pc \in {"idle", "crashed"}
  /\ Pending
  /\ ret' = Returned(ResultOf(criteria, call.trigger_search, final_result_json))
  /\ pc' = "returned"
  /\ UNCHANGED <<call, criteria, gemini_api_key, journals, top_journals, idx,
                 final_results, results_json, final_result_json, trace,
                 fetch_status, runs>>

\* journals = fetcher.fetch_journals(criteria): the search request is sent
\* and answered.
FetchJournals ==
  /\ pc = "fetch"
  /\ \E response \in SearchResponses :
       LET r == fetch_journals(response)
       IN /\ fetch_status' = response.status
          /\ IF r.raised
             THEN pc' = "crashed" /\ UNCHANGED journals
             ELSE pc' = "fetched" /\ journals' = r.value
  /\ trace' = Append(trace, SearchEvent)
  /\ UNCHANGED <<pureVars, criteria, gemini_api_key, top_journals, idx,
                 final_results, results_json, final_result_json, runs>>

\* if not journals: return
MainNoJournals ==
  /\ pc = "fetched"
  /\ journals = <<>>
  /\ pc' = "idle"
  /\ UNCHANGED <<pureVars, criteria, gemini_api_key, journals, top_journals,
                 idx, final_results, results_json, final_result_json, trace,
                 fetch_status, runs>>

\* The journals are ranked, results.json is written and save_final_results
\* takes the shortlist.
MainRankAndSave ==
  /\ pc = "fetched"
  /\ journals # <<>>
  /\ LET orders == TopicOrders(journals)
         ranked == rank_and_filter_journals(journals, criteria, orders)
     IN /\ journals' = ScoredJournals(journals, criteria, orders)
        /\ top_journals' = ranked
        /\ results_json' = Some(ranked)
  /\ idx' = 1
  /\ final_results' = <<>>
  /\ pc' = "enrich"
  /\ UNCHANGED <<pureVars, criteria, gemini_api_key, final_result_json, trace,
                 fetch_status, runs>>

\* One turn of the loop of save_final_results, up to the record or to the
\* request to the generative service.  The topics of the works of the pools
\* are strings, so that building the prompt raises nothing and the request is
\* sent.
EnrichEntry ==
  /\ pc = "enrich"
  /\ idx <= Len(Top3(top_journals))
  /\ LET journal == Top3(top_journals)[idx]
         abstract == reconstruct_abstract(GetOpt(journal, "abstract"))
     IN IF ~NeedsFallback(abstract)
        THEN /\ final_results' =
                  Append(final_results, ResultRecord(journal, abstract, criteria))
             /\ idx' = idx + 1
             /\ trace' = Append(trace, ReconstructEvent(idx))
             /\ pc' = "enrich"
        ELSE IF gemini_api_key
        THEN /\ pc' = "gemini"
             /\ trace' = trace \o <<ReconstructEvent(idx), GeminiEvent(idx)>>
             /\ UNCHANGED <<final_results, idx>>
        ELSE /\ final_results' =
                  Append(final_results,
                         ResultRecord(journal, Some(NotConfiguredSentinel),
                                      criteria))
             /\ idx' = idx + 1
             /\ trace' = Append(trace, ReconstructEvent(idx))
             /\ pc' = "enrich"
  /\ UNCHANGED <<pureVars, criteria, gemini_api_key, journals, top_journals,
                 results_json, final_result_json, fetch_status, runs>>

\* The generative service answers (or the request times out or fails), and
\* the record is built.
GeminiResponds ==
  /\ pc = "gemini"
  /\ \E response \in GeminiResponses :
       LET journal == Top3(top_journals)[idx]
           abstract == generate_abstract_with_gemini(gemini_api_key, response)
       IN final_results' =
            Append(final_results, ResultRecord(journal, abstract, criteria))
  /\ idx' = idx + 1
  /\ pc' = "enrich"
  /\ UNCHANGED <<pureVars, criteria, gemini_api_key, journals, top_journals,
                 results_json, final_result_json, trace, fetch_status, runs>>

\* After the loop final_result.json is written, and main() returns.
WriteFinalResults ==
  /\ pc = "enrich"
  /\ idx > Len(Top3(top_journals))
  /\ final_result_json' = Some(final_results)
  /\ pc' = "idle"
  /\ UNCHANGED <<pureVars, criteria, gemini_api_key, journals, top_journals,
                 idx, final_results, results_json, trace, fetch_status, runs>>

SaveFinalResults == EnrichEntry \/ GeminiResponds \/ WriteFinalResults

Next ==
  \/ StartMain
  \/ ProcessUserInput
  \/ ProcessUserInputNoSearch
  \/ ReturnProcessUserInput
  \/ FetchJournals
  \/ MainNoJournals
  \/ MainRankAndSave
  \/ SaveFinalResults

Spec == Init /\ [][Next]_vars

-----------------------------------------------------------------------------
(* save_final_results on its own: main() has ranked some list of journals  *)
(* and written results.json.                                               *)

EnrichPool ==
  {JournalInfo(w) : w \in {RawWithAbstract, RawNoAbstract, RawStringAbstract}}

InitEnrich ==
  /\ call = [fn |-> "none"]
  /\ ret = NotReturned
  /\ \E c \in CriteriaPool, key \in BOOLEAN, n \in 0..MaxRanked :
       \E fetched \in [1..n -> EnrichPool] :
         LET orders == TopicOrders(fetched)
             ranked == rank_and_filter_journals(fetched, c, orders)
         IN /\ criteria = c
            /\ gemini_api_key = key
            /\ journals = ScoredJournals(fetched, c, orders)
            /\ top_journals = ranked
            /\ results_json = Some(ranked)
  /\ pc = "enrich"
  /\ idx = 1
  /\ final_results = <<>>
  /\ final_result_json = None
  /\ trace = <<SearchEvent>>
  /\ fetch_status = "ok"
  /\ runs = 1

SpecEnrich == InitEnrich /\ [][SaveFinalResults]_vars

-----------------------------------------------------------------------------
(* Claims about calculate_aptness_score and rank_and_filter_journals,      *)
(* checked under SpecPure                                                  *)

ScoreReturned == call.fn = "calculate_aptness_score" /\ ret.done

RankReturned == call.fn = "rank_and_filter_journals" /\ ret.done

InRange(score) == RatGeqInt(score, 0) /\ RatLeqInt(score, 100)

\* C1: calculate_aptness_score returns a value in [0,100] for every work and
\* criteria, and after rank_and_filter_journals every journal of the list it
\* was given, and every journal it returns, carries an aptness_score in
\* [0,100].
C1_ScoreInRange ==
  /\ ScoreReturned => InRange(ret.value)
  /\ RankReturned =>
       /\ \A i \in DOMAIN call.journals :
            /\ "aptness_score" \in DOMAIN call.journals[i]
            /\ InRange(call.journals[i].aptness_score)
       /\ \A k \in DOMAIN ret.value :
            /\ "aptness_score" \in DOMAIN ret.value[k]
            /\ InRange(ret.value[k].aptness_score)

\* C1 witness: a score was returned for a work whose three terms add up to
\* more than 100, and a ranking was returned for a non-empty list.
C1_Witness ==
  /\ ScoreReturned
  /\ ~RatLeqInt(UncappedScore(call.work, call.criteria, call.topic_order), 100)
  /\ RatEqInt(ret.value, 100)

\* The candidate and criteria of the 2005 scenario: keywords graph and
\* attention, open access requested; the candidate has keyword graph, topic
\* "graph attention network", year 2005 and is open.
IsScenario2005 ==
  /\ call.fn = "calculate_aptness_score"
  /\ LowerSet(call.criteria.keywords) = {S_graph, S_attention}
  /\ call.criteria.openAccess = Some(1)
  /\ LowerSet(call.work.keywords) = {S_graph}
  /\ LowerSet(call.work.topics) = {lower(S_GraphAttentionNetwork)}
  /\ call.work.publication_year = Some(2005)
  /\ call.work.is_open_access = Some(TRUE)

\* C2: each of the three terms stays within its budget (relevance in [0,60],
\* recency in [0,25], openness in [0,15]), so the cap min(score, 100) never
\* changes the value, and the 2005 scenario candidate scores 80.
C2_TermsWithinBudget ==
  ScoreReturned =>
    LET rel == RelevanceScore(call.work, call.criteria, call.topic_order)
        rec == RecencyScore(call.work)
        opn == OpennessScore(call.work, call.criteria)
    IN /\ RatGeqInt(rel, 0) /\ RatLeqInt(rel, 60)
       /\ rec \in 0..25
       /\ opn \in 0..15
       /\ RatEq(ret.value,
                UncappedScore(call.work, call.criteria, call.topic_order))
       /\ IsScenario2005 => RatEqInt(ret.value, 80)

\* C3: the relevance term is 0 when the criteria keyword set is empty (or
\* holds only empty strings) and exactly 60 when every criteria keyword is in
\* the candidate's keyword set (case-insensitively), whatever the topics are.
C3_RelevanceEnds ==
  ScoreReturned =>
    LET rel == RelevanceScore(call.work, call.criteria, call.topic_order)
        input_keywords == LowerSet(call.criteria.keywords)
        work_keywords == LowerSet(call.work.keywords)
    IN /\ input_keywords = {} => RatEqInt(rel, 0)
       /\ (input_keywords # {} /\ input_keywords \subseteq work_keywords)
            => RatEqInt(rel, 60)

\* The recency term the specification gives for an age.
RecencyOfAge(age) ==
  IF age <= 5 THEN 25
  ELSE IF age <= 10 THEN 25 - 2 * (age - 5)
  ELSE IF age <= 20 THEN 15 - (age - 10)
  ELSE 5

\* C4: the recency term is the piecewise function of age = 2025 -
\* publicationYear (25 up to 5, 25 - 2*(age-5) up to 10, 15 - (age-10) up to
\* 20, 5 beyond), is non-increasing in age, and is 0 when the year is missing.
C4_RecencyPiecewise ==
  ScoreReturned =>
    LET y == call.work.publication_year
    IN /\ y = None => RecencyScore(call.work) = 0
       /\ y # None =>
            /\ RecencyScore(call.work) = RecencyOfAge(2025 - y[1])
            /\ \A z \in Years \ {None} :
                 z[1] <= y[1] =>
                   RecencyScore([call.work EXCEPT !.publication_year = z])
                     <= RecencyScore(call.work)

\* C5: rank_and_filter_journals returns the first min(15, n) elements of the
\* stable descending sort of its input by aptness_score: every output element
\* is a (scored) input element, the output is sorted descending with equal
\* scores in their original order, nothing left out precedes an output
\* element in that order, and there are min(15, n) entries.
C5_RankStableTop15 ==
  RankReturned =>
    LET out == ret.value
        inp == call.journals
        n == Len(inp)
        Before(a, b) ==
          \/ ~RatLeq(a.aptness_score, b.aptness_score)
          \/ RatEq(a.aptness_score, b.aptness_score) /\ a.id < b.id
    IN /\ Len(out) = IF n < 15 THEN n ELSE 15
       /\ \A k \in DOMAIN out : out[k].id \in 1..n /\ out[k] = inp[out[k].id]
       /\ \A k, l \in DOMAIN out : k < l => Before(out[k], out[l])
       /\ \A i \in 1..n :
            (\A k \in DOMAIN out : out[k].id # i)
              => \A k \in DOMAIN out : Before(out[k], inp[i])

\* C5 witness: a list of more than 15 journals was ranked, the output holds
\* two different works of equal score next to each other, and a journal was
\* left out.
C5_Witness ==
  /\ RankReturned
  /\ Len(call.journals) > 15
  /\ Len(ret.value) = 15
  /\ \E k \in 1..14 :
       /\ RatEq(ret.value[k].aptness_score, ret.value[k + 1].aptness_score)
       /\ ret.value[k].title # ret.value[k + 1].title
  /\ \E k \in 1..14 :
       ~RatEq(ret.value[k].aptness_score, ret.value[k + 1].aptness_score)

ReconstructReturned == call.fn = "reconstruct_abstract" /\ ret.done

\* A word map whose positions are lists of integers.
WellFormed(index) ==
  /\ index.kind = "dict"
  /\ \A i \in DOMAIN index.items :
       /\ index.items[i].positions.t = "list"
       /\ \A j \in DOMAIN index.items[i].positions.v :
            index.items[i].positions.v[j].t = "int"

\* The positions of a word map, and the word at a position.
PositionsOf(items) ==
  UNION {{items[i].positions.v[j].v : j \in DOMAIN items[i].positions.v} :
         i \in DOMAIN items}

WordAt(items, pos) ==
  LET i == CHOOSE i \in DOMAIN items :
             \E j \in DOMAIN items[i].positions.v :
               items[i].positions.v[j].v = pos
  IN items[i].word

\* C8: for a well-formed word map, reconstruct_abstract returns the words
\* joined by single spaces in ascending position order, a word of k positions
\* appearing k times (the index of a text gives the text back); for an absent
\* or empty map it returns None, not an empty string.
C8_ReconstructRoundTrip ==
  ReconstructReturned =>
    LET index == call.inverted_index
    IN /\ (index.kind = "none" \/ (index.kind = "dict" /\ index.items = <<>>))
            => ret.value = None
       /\ (WellFormed(index) /\ index.items # <<>>) =>
            LET order == Ascending(PositionsOf(index.items))
                words == [k \in DOMAIN order |-> WordAt(index.items, order[k])]
            IN /\ ret.value = Some(join(<<" ">>, words))
               /\ ret.value = Some(join(<<" ">>, call.text))
               /\ \A w \in WordPool :
                    \A i \in DOMAIN index.items :
                      index.items[i].word = w =>
                        Cardinality({k \in DOMAIN words : words[k] = w})
                          = Len(index.items[i].positions.v)

\* C8 witness: an abstract was rebuilt from a map in which a word has two
\* positions and whose dict order is not the order of the positions.
C8_Witness ==
  /\ ReconstructReturned
  /\ call.inverted_index.kind = "dict"
  /\ ret.value # None
  /\ \E i \in DOMAIN call.inverted_index.items :
       Len(call.inverted_index.items[i].positions.v) = 2
  /\ join(<<" ">>, [i \in DOMAIN call.inverted_index.items |->
                      call.inverted_index.items[i].word]) # ret.value[1]
  /\ Len(call.text) = 3
  /\ call.inverted_index.items[1].positions.v[1].v # 0

-----------------------------------------------------------------------------
(* Claims about save_final_results, checked under SpecEnrich               *)

Min(a, b) == IF a < b THEN a ELSE b

\* C6: save_final_results works on the first 3 ranked entries only: no entry
\* past the third is reconstructed or sent to the generative service, and the
\* summary written has min(3, n) records, record k built from ranked entry k
\* (its title and aptness score, the acceptance band of the criteria).
C6_OnlyFirstThree ==
  /\ \A e \in DOMAIN trace :
       trace[e].op \in {"reconstruct", "gemini"} =>
         trace[e].index \in 1..Min(3, Len(top_journals))
  /\ Len(final_results) <= Min(3, Len(top_journals))
  /\ final_result_json # None =>
       LET out == final_result_json[1]
       IN /\ Len(out) = Min(3, Len(top_journals))
          /\ \A k \in DOMAIN out :
               /\ out[k].title = top_journals[k].title
               /\ out[k].aptnessScore = top_journals[k].aptness_score
               /\ "acceptancePercentFrom" \in DOMAIN criteria =>
                    out[k].acceptancePercent.from = criteria.acceptancePercentFrom
               /\ "acceptancePercentTo" \in DOMAIN criteria =>
                    out[k].acceptancePercent.to = criteria.acceptancePercentTo

\* C6 witness: a ranked list of 5 journals was handled, 3 records were
\* written, the generative service was asked, and the criteria have a band.
C6_Witness ==
  /\ final_result_json # None
  /\ Len(top_journals) = 5
  /\ Len(final_result_json[1]) = 3
  /\ \E e \in DOMAIN trace : trace[e].op = "gemini"
  /\ "acceptancePercentFrom" \in DOMAIN criteria
  /\ top_journals[4].title # top_journals[3].title

\* C7: in every record of the summary the abstract is a string, never absent,
\* whatever reconstruction and the generative service gave; a failure of the
\* service for one entry stops nothing, the other entries of the shortlist
\* are handled and written.
C7_AbstractAlwaysPresent ==
  /\ pc \in {"enrich", "gemini", "idle"}
  /\ \A k \in DOMAIN final_results :
       final_results[k].abstract # None /\ Len(final_results[k].abstract) = 1
  /\ final_result_json # None =>
       /\ Len(final_result_json[1]) = Min(3, Len(top_journals))
       /\ \A k \in DOMAIN final_result_json[1] :
            /\ final_result_json[1][k].abstract # None
            /\ Len(final_result_json[1][k].abstract) = 1
            /\ \E e \in DOMAIN trace : trace[e] = ReconstructEvent(k)

\* C7 witness: a summary was written whose first abstract is the message of a
\* timeout, the second that of a failure, and the third a generated text.
C7_Witness ==
  /\ final_result_json # None
  /\ Len(final_result_json[1]) = 3
  /\ final_result_json[1][1].abstract = Some(TimedOutMessage)
  /\ final_result_json[1][2].abstract = Some(FailedMessage)
  /\ final_result_json[1][3].abstract = Some(<<"Generated abstract.">>)

-----------------------------------------------------------------------------
(* Claims about main(), checked under Spec                                 *)

\* C9: when the search request fails (no connection, or a status that is not
\* 2xx), fetch_journals raises nothing and returns the empty list, as it does
\* for a response without results.
C9_TransportFailureIsEmptyList ==
  fetch_status \in FailureStatuses => (pc # "crashed" /\ journals = <<>>)

\* C9 witness: the search request was answered with an error status and
\* fetch_journals has returned.
C9_Witness == fetch_status = "http_error" /\ pc = "fetched"

\* C10: after every run of main() results.json and final_result.json hold the
\* output of that run (the ranked list and the summary of its shortlist, both
\* empty when the search failed or found nothing), and nothing of a run
\* before.
C10_ArtifactsOfLastRun ==
  (pc = "idle" /\ runs > 0) =>
    /\ results_json = Some(top_journals)
    /\ final_result_json = Some(final_results)


-----------------------------------------------------------------------------
(* Claims about build_query_params, checked under SpecPure                 *)

QueryReturned == call.fn = "build_query_params" /\ ret.done

\* The chunks of a string.
Chunks(str) == {str[i] : i \in DOMAIN str}

\* C11: for every criteria record the parameters of build_query_params have
\* a filter that holds the journal-type restriction, and holds is_oa:true
\* exactly when openAccess is 1, is_oa:false exactly when it is 0, and no
\* openness filter when it is unspecified; the search string is the subject
\* area (when there is one) followed by the parenthesised disjunction of the
\* first 10 keywords (when there are keywords), and there is no search string
\* when there is neither; no keyword after the tenth occurs in it; the sort
\* is cited_by_count:desc and the page size is 15.
C11_QueryParams ==
  QueryReturned =>
    LET params == ret.value
        crit == call.criteria
        kws == crit.keywords
        first == [i \in 1..Min(Len(kws), 10) |-> kws[i]]
        subject == IF crit.subjectArea \in {None, Some(<<>>)} THEN <<>>
                   ELSE <<crit.subjectArea[1]>>
        disjunction == IF kws = <<>> THEN <<>>
                       ELSE << <<"(">> \o join(<<" OR ">>, first) \o <<")">> >>
    IN /\ "filter" \in DOMAIN params
       /\ "primary_location.source.type:journal" \in Chunks(params.filter)
       /\ "is_oa:true" \in Chunks(params.filter) <=> crit.openAccess = Some(1)
       /\ "is_oa:false" \in Chunks(params.filter) <=> crit.openAccess = Some(0)
       /\ crit.openAccess = None =>
            params.filter = <<"primary_location.source.type:journal">>
       /\ IF subject \o disjunction = <<>> THEN "search" \notin DOMAIN params
          ELSE /\ "search" \in DOMAIN params
               /\ params.search = join(<<" ">>, subject \o disjunction)
               /\ \A i \in 11..Len(kws) : ~IsSubstring(kws[i], params.search)
       /\ params.sort = <<"cited_by_count:desc">>
       /\ params.per_page = <<"15">>

\* A call with more than 10 keywords, a subject area and a closed-access
\* preference has returned.
C11_Witness ==
  /\ QueryReturned
  /\ Len(call.criteria.keywords) > 10
  /\ call.criteria.subjectArea = Some(<<"DL">>)
  /\ call.criteria.openAccess = Some(0)
  /\ "search" \in DOMAIN ret.value

-----------------------------------------------------------------------------
(* Claims about fetch_journals, checked under SpecPure                     *)

FetchReturned == call.fn = "fetch_journals" /\ ret.done

\* The field is missing from the dict: there is no such key, or its value
\* is null.
Missing(d, key) == key \notin DOMAIN d \/ d[key] = None

\* The candidate has the absent or default value in the places that come
\* from the fields missing in the work, and the values of the fields that
\* the work has.
DefaultsForMissing(work, candidate) ==
  LET Scalar(key, field) ==
        candidate[field] = IF Missing(work, key) THEN None ELSE work[key]
      Nested(d, key, field) ==
        candidate[field] = IF Missing(d, key) THEN None ELSE d[key]
      Object(d, key) == IF Missing(d, key) THEN EmptyDict ELSE d[key][1]
      Names(key, member, field) ==
        IF Missing(work, key) THEN candidate[field] = <<>>
        ELSE /\ Len(candidate[field]) = Len(work[key][1])
             /\ \A k \in DOMAIN work[key][1] :
                  candidate[field][k] =
                    IF Missing(work[key][1][k], member) THEN None
                    ELSE work[key][1][k][member]
      open_access == Object(work, "open_access")
      primary_location == Object(work, "primary_location")
      source == Object(primary_location, "source")
  IN /\ Scalar("id", "id")
     /\ Scalar("display_name", "title")
     /\ Scalar("doi", "doi")
     /\ Scalar("publication_year", "publication_year")
     /\ Scalar("cited_by_count", "cited_by_count")
     /\ Nested(open_access, "is_oa", "is_open_access")
     /\ Nested(open_access, "oa_status", "oa_status")
     /\ Nested(source, "display_name", "journal_name")
     /\ Nested(source, "issn", "journal_issn")
     /\ Nested(primary_location, "landing_page_url", "url")
     /\ Names("topics", "display_name", "topics")
     /\ Names("keywords", "keyword", "keywords")
     /\ candidate.abstract =
          IF "abstract_inverted_index" \in DOMAIN work
          THEN work.abstract_inverted_index ELSE NoAbstract

\* C12: for every successful search response fetch_journals raises nothing
\* and returns one candidate for each work of the response, in order; a field
\* missing from a work (or a member missing from its open_access,
\* primary_location or source) is the absent value in the candidate, and the
\* other works of the response are mapped all the same.
C12_MissingFieldsNeverRaise ==
  (FetchReturned /\ call.response.status = "ok") =>
    LET results == Get(call.response, "results", <<>>)
    IN /\ ~ret.value.raised
       /\ Len(ret.value.value) = Len(results)
       /\ \A k \in DOMAIN results :
            DefaultsForMissing(results[k], ret.value.value[k])

-----------------------------------------------------------------------------
(* Claims about malformed abstract indexes, checked under SpecPure         *)

\* An abstract index that is present and is not a word map with lists of
\* integers: a plain string, or a map with other positions.
Malformed(index) == index.kind # "none" /\ ~WellFormed(index)

\* C13: for every malformed abstract index (a plain string, positions that
\* are not numbers, positions that are not a list of integers)
\* reconstruct_abstract raises nothing and returns None.
C13_MalformedGivesNone ==
  (ReconstructReturned /\ Malformed(call.inverted_index)) => ret.value = None

-----------------------------------------------------------------------------
(* Claims about the requests of a run, checked under Spec                  *)

\* The places of the trace that hold a request of the given kind.
Requests(op) == {e \in DOMAIN trace : trace[e].op = op}

\* C14: a run sends exactly one search request, before anything else, and
\* then at most 3 requests to the generative service, one after another: a
\* request is sent only when every earlier one was answered and its record
\* built.  Such a request is sent for an entry of the shortlist only right
\* after its abstract could not be rebuilt; without the credential none is
\* sent and the abstract of such an entry is the 'not configured' sentence.
C14_RequestsOfARun ==
  /\ Cardinality(Requests("search")) = IF pc = "fetch" \/ runs = 0 THEN 0 ELSE 1
  /\ trace # <<>> => trace[1] = SearchEvent
  /\ Cardinality(Requests("gemini")) <= 3
  /\ \A e \in Requests("gemini") :
       LET k == trace[e].index
       IN /\ k \in 1..Min(3, Len(top_journals))
          /\ trace[e - 1] = ReconstructEvent(k)
          /\ reconstruct_abstract(GetOpt(top_journals[k], "abstract")) = None
          /\ gemini_api_key
          /\ \A d \in Requests("gemini") : d < e => trace[d].index < k
          /\ \/ Len(final_results) >= k
             \/ pc = "gemini" /\ e = Len(trace) /\ k = idx
  /\ pc = "gemini" => trace[Len(trace)] = GeminiEvent(idx)
  /\ ~gemini_api_key =>
       \A k \in DOMAIN final_results :
         reconstruct_abstract(GetOpt(top_journals[k], "abstract")) = None
           => final_results[k].abstract = Some(NotConfiguredSentinel)

\* C14 witness: a run has ended in which 4 journals were ranked and 3
\* shortlisted, the abstract of the first was rebuilt and the generative
\* service was asked for the other two.
C14_Witness ==
  /\ pc = "idle"
  /\ final_result_json = Some(final_results)
  /\ Len(top_journals) = 4
  /\ Len(final_results) = 3
  /\ {trace[e].index : e \in Requests("gemini")} = {2, 3}
  /\ Cardinality(Requests("search")) = 1

-----------------------------------------------------------------------------
(* Claims about the openness term, checked under SpecPure                  *)

\* The openness term as the claim gives it, case by case.
OpennessOf(is_open_access, openAccess) ==
  IF is_open_access = None THEN 0
  ELSE IF openAccess \in {None, Some(0)}
       THEN (IF is_open_access = Some(FALSE) THEN 15 ELSE 0)
       ELSE (IF is_open_access = Some(TRUE) THEN 15 ELSE 0)

\* C15: the openness term of the score is 15 when the openness of the work
\* equals the truthiness of the criteria's openAccess and 0 otherwise: with
\* openAccess unspecified or 0 a closed work gets 15 and an open one 0, with
\* openAccess 1 an open work gets 15 and a closed one 0, and a work whose
\* openness is absent gets 0; the score returned is the sum of relevance,
\* recency and this term, capped at 100.
C15_OpennessTerm ==
  ScoreReturned =>
    LET expected == OpennessOf(call.work.is_open_access, call.criteria.openAccess)
        sum == RatAddInt(RatAddInt(RelevanceScore(call.work, call.criteria,
                                                  call.topic_order),
                                   RecencyScore(call.work)),
                         expected)
    IN /\ OpennessScore(call.work, call.criteria) = expected
       /\ RatEq(ret.value, RatMinInt(sum, 100))

\* C15 witness: a closed work was scored under criteria without an openness
\* preference, and the 15 points show in the score: 25 + 15.
C15_Witness ==
  /\ ScoreReturned
  /\ call.criteria.openAccess = None
  /\ call.work.is_open_access = Some(FALSE)
  /\ call.work.publication_year = Some(2024)
  /\ call.criteria.keywords = <<>>
  /\ RatEqInt(ret.value, 40)

-----------------------------------------------------------------------------
(* Claims about process_user_input, checked under Spec                     *)

\* C16: when a call of process_user_input with trigger_search=True returns
\* final_results, they are the summary that the journal search of this call
\* wrote, for the refined criteria of this call; what an earlier call left in
\* final_result.json is never returned, also when the search of this call
\* found no journals or its process ended with an error.
C16_ResultsOfThisCall ==
  (pc = "returned" /\ call.trigger_search
     /\ "final_results" \in DOMAIN ret.value) =>
    /\ fetch_status = "ok"
    /\ journals # <<>>
    /\ idx > Len(Top3(top_journals))
    /\ ret.value.final_results = final_results
    /\ ret.value.refined_output = criteria

=========================================================================
